---- MODULE Spec2Model ----
(***************************************************************************)
(* Weekly payment aggregation and bonus-merge engine of AirHub_Server.     *)
(*                                                                         *)
(* Dates are day numbers (day 0 is a Sunday, so weekday = day % 7); an     *)
(* optional field is a sequence of length 0 (undefined / null) or 1.       *)
(* Hours and money are whole numbers, multipliers are in tenths (1.2 is    *)
(* 12), avgQuality is stored in hundredths, rounded half up as the schema  *)
(* setter does.  A reason string joined with '; ' is the sequence of its   *)
(* parts.                                                                  *)
(***************************************************************************)
EXTENDS Integers, Sequences, FiniteSets, TLC

VARIABLES users, entries, benchmarks, bonuses, payments, today, lastCall, reqs

vars == <<users, entries, benchmarks, bonuses, payments, today, lastCall, reqs>>

\* ------------------------------------------------------------------ bounds
MaxBonuses == 2

\* --------------------------------------------------------------- constants
DefaultHourlyRate == 2000
DefaultWeekStartDay == 2

Users == {"u1"}
Actors == {"admin"}
Reasons == {"r1"}
BonusAmounts == {5}
EntryIds == {"e1", "e2"}

None == <<>>
Some(v) == <<v>>
IfNull(opt, dflt) == IF opt = <<>> THEN dflt ELSE opt[1]

RECURSIVE SumSeq(_)
SumSeq(s) == IF s = <<>> THEN 0 ELSE Head(s) + SumSeq(Tail(s))

RECURSIVE SetToSeq(_)
SetToSeq(S) ==
  IF S = {} THEN <<>>
  ELSE LET m == CHOOSE x \in S : \A y \in S : x <= y
       IN <<m>> \o SetToSeq(S \ {m})

Min(S) == CHOOSE x \in S : \A y \in S : x <= y

\* ------------------------------------------------------ week boundaries
getWeekBoundaries(date, weekStartDay) ==
  LET daysBack == ((date % 7) - weekStartDay + 7) % 7
  IN [weekStart |-> date - daysBack, weekEnd |-> date - daysBack + 6]

userWeekStartDay(u) == IfNull(users[u].weekStartDay, DefaultWeekStartDay)

\* ------------------------------------------------------------ benchmark
DefaultThresholds == [excellent |-> 80, good |-> 70, average |-> 60, minimum |-> 50]
DefaultBonusRates == [excellent |-> 12, good |-> 11, average |-> 10, minimum |-> 9, below |-> 8]

ScoreBenchmark ==
  [id |-> 2, isActive |-> TRUE, startDate |-> 0, endDate |-> 20, payPerHour |-> Some(1000),
   earningsMode |-> "score", thresholds |-> DefaultThresholds, bonusRates |-> DefaultBonusRates]

BenchmarkConfigs == {{}, {ScoreBenchmark}}

FirstByStartDateDesc(S) ==
  IF S = {} THEN None
  ELSE Some(CHOOSE b \in S : \A c \in S : b.startDate > c.startDate
                                       \/ (b.startDate = c.startDate /\ b.id <= c.id))

getCurrentBenchmark ==
  FirstByStartDateDesc({b \in benchmarks :
      b.isActive /\ b.startDate <= today /\ b.endDate >= today})

\* a fallback without the isActive filter
getLatestOfAll == FirstByStartDateDesc(benchmarks)

getLatestBenchmark == FirstByStartDateDesc({b \in benchmarks : b.isActive})

resolveBenchmark == IF getCurrentBenchmark # None THEN getCurrentBenchmark ELSE getLatestBenchmark

getHourlyRate(b) ==
  IF b.payPerHour # None /\ b.payPerHour[1] > 0 THEN b.payPerHour[1] ELSE DefaultHourlyRate

resolveHourlyRate(benchmark) ==
  IF benchmark # None /\ benchmark[1].payPerHour # None /\ benchmark[1].payPerHour[1] > 0
  THEN benchmark[1].payPerHour[1]
  ELSE DefaultHourlyRate

\* overallPerformance = avgQuality*0.6 + avgTime*0.4, compared with a threshold t:
\* (6*qualitySum + 4*timeSum) / (10*entryCount) >= t, kept exact by cross-multiplying.
ScoreAtLeast(stats, t) ==
  IF stats.entryCount = 0 THEN 0 >= t
  ELSE 6 * stats.qualitySum + 4 * stats.timeSum >= 10 * t * stats.entryCount

getTier(b, stats) ==
  IF ScoreAtLeast(stats, b.thresholds.excellent) THEN "excellent"
  ELSE IF ScoreAtLeast(stats, b.thresholds.good) THEN "good"
  ELSE IF ScoreAtLeast(stats, b.thresholds.average) THEN "average"
  ELSE IF ScoreAtLeast(stats, b.thresholds.minimum) THEN "minimum"
  ELSE "below"

calculateEarnings(b, stats) ==
  LET hourlyRate == getHourlyRate(b)
      baseEarnings == stats.totalHours * hourlyRate
  IN IF b.earningsMode = "score"
     THEN LET tier == getTier(b, stats)
              multiplier == IF b.bonusRates[tier] = 0 THEN 10 ELSE b.bonusRates[tier]
          IN [hourlyRate |-> hourlyRate, baseEarnings |-> baseEarnings,
              multiplier |-> multiplier,
              bonusEarnings |-> (baseEarnings * (multiplier - 10)) \div 10,
              tier |-> tier,
              finalEarnings |-> (baseEarnings * multiplier) \div 10]
     ELSE [hourlyRate |-> hourlyRate, baseEarnings |-> baseEarnings,
           multiplier |-> 10, bonusEarnings |-> 0, tier |-> "flat",
           finalEarnings |-> baseEarnings]

\* ------------------------------------------------------ entry aggregation
\* a $match without adminApproved: true
aggregateAllEntries(ents, worker, from, to) ==
  LET M == {e \in DOMAIN ents : /\ ents[e].worker = worker
                                /\ ents[e].date >= from /\ ents[e].date <= to}
      tsum == LET RECURSIVE T(_)
                  T(S) == IF S = {} THEN 0
                          ELSE LET e == CHOOSE x \in S : TRUE
                               IN IfNull(ents[e].adminTime, ents[e].time) + T(S \ {e})
              IN T(M)
      qsum == LET RECURSIVE Q(_)
                  Q(S) == IF S = {} THEN 0
                          ELSE LET e == CHOOSE x \in S : TRUE
                               IN IfNull(ents[e].adminQuality, ents[e].quality) + Q(S \ {e})
              IN Q(M)
  IN [totalHours |-> tsum, qualitySum |-> qsum, timeSum |-> tsum, entryCount |-> Cardinality(M)]

\* Entry.aggregate([{ $match }, { $group }]); stats[0] || all zeros
aggregateEntries(ents, worker, from, to) ==
  LET M == {e \in DOMAIN ents : /\ ents[e].worker = worker
                             /\ ents[e].date >= from /\ ents[e].date <= to
                             /\ ents[e].adminApproved}
      tsum == LET RECURSIVE T(_)
                  T(S) == IF S = {} THEN 0
                          ELSE LET e == CHOOSE x \in S : TRUE
                               IN IfNull(ents[e].adminTime, ents[e].time) + T(S \ {e})
              IN T(M)
      qsum == LET RECURSIVE Q(_)
                  Q(S) == IF S = {} THEN 0
                          ELSE LET e == CHOOSE x \in S : TRUE
                               IN IfNull(ents[e].adminQuality, ents[e].quality) + Q(S \ {e})
              IN Q(M)
  IN [totalHours |-> tsum, qualitySum |-> qsum, timeSum |-> tsum, entryCount |-> Cardinality(M)]

\* Math.round(avg * 100) / 100 of qualitySum / entryCount, in hundredths
roundedAvgQuality(stats) ==
  IF stats.entryCount = 0 THEN 0
  ELSE (200 * stats.qualitySum + stats.entryCount) \div (2 * stats.entryCount)

\* ------------------------------------------------------------ documents
NewPayment ==
  [user |-> "", weekStart |-> 0, weekEnd |-> 0, weekStartDay |-> DefaultWeekStartDay,
   totalHours |-> 0, avgQuality |-> 0, entryCount |-> 0, hourlyRate |-> DefaultHourlyRate,
   baseEarnings |-> 0, performanceMultiplier |-> 10, bonusEarnings |-> 0,
   extraBonus |-> 0, extraBonusReason |-> None, totalEarnings |-> 0,
   paymentType |-> "regular", status |-> "pending",
   paid |-> FALSE, paidDate |-> None, paidBy |-> None,
   approvedBy |-> None, approvedAt |-> None,
   deniedBy |-> None, deniedAt |-> None, denialReason |-> None]

NewBonus(user, amount, reason, actor) ==
  [user |-> user, amount |-> amount, reason |-> reason, status |-> "pending",
   mergedIntoPayment |-> None, mergedAt |-> None, createdBy |-> actor]

\* weeklyPaymentSchema.pre('save'): recompute totalEarnings on every save
\* a pre-save hook that forgets the bonus earnings of a regular payment
preSaveWithoutBonusEarnings(p) ==
  IF p.paymentType = "bonus"
  THEN [p EXCEPT !.totalEarnings = p.extraBonus]
  ELSE [p EXCEPT !.totalEarnings = p.baseEarnings + p.extraBonus]

preSave(p) ==
  IF p.paymentType = "bonus"
  THEN [p EXCEPT !.totalEarnings = p.extraBonus]
  ELSE [p EXCEPT !.totalEarnings = p.baseEarnings + p.bonusEarnings + p.extraBonus]

\* payment.save(): insert when the document is new, else replace it
savePayment(pays, pid, p) ==
  IF pid > Len(pays) THEN Append(pays, preSave(p)) ELSE [pays EXCEPT ![pid] = preSave(p)]

\* a lookup that also filters on paid: { $ne: true }, so a paid week is not found
findRegularUnpaid(pays, userId, weekStart) ==
  LET S == {i \in 1..Len(pays) : /\ pays[i].user = userId
                                 /\ pays[i].weekStart = weekStart
                                 /\ pays[i].paymentType = "regular"
                                 /\ ~pays[i].paid}
  IN IF S = {} THEN None ELSE Some(Min(S))

\* WeeklyPayment.findOne({ user, weekStart, paymentType: 'regular' })
findRegular(pays, userId, weekStart) ==
  LET S == {i \in 1..Len(pays) : /\ pays[i].user = userId
                                 /\ pays[i].weekStart = weekStart
                                 /\ pays[i].paymentType = "regular"}
  IN IF S = {} THEN None ELSE Some(Min(S))

\* a lookup without the paid: { $ne: true } filter: the latest regular week, paid or not
findLatestWeek(pays, userId) ==
  LET S == {i \in 1..Len(pays) : /\ pays[i].user = userId
                                 /\ pays[i].paymentType = "regular"}
  IN IF S = {} THEN None
     ELSE Some(CHOOSE i \in S : \A j \in S : pays[i].weekStart > pays[j].weekStart
                                          \/ (pays[i].weekStart = pays[j].weekStart /\ i <= j))

\* the same lookup sorted by weekStart ascending: the oldest unpaid week
findOldestUnpaidWeek(pays, userId) ==
  LET S == {i \in 1..Len(pays) : /\ pays[i].user = userId
                                 /\ ~pays[i].paid
                                 /\ pays[i].paymentType = "regular"}
  IN IF S = {} THEN None
     ELSE Some(CHOOSE i \in S : \A j \in S : pays[i].weekStart < pays[j].weekStart
                                          \/ (pays[i].weekStart = pays[j].weekStart /\ i <= j))

\* WeeklyPayment.findOne({ user, paid: { $ne: true }, paymentType: 'regular' }).sort({ weekStart: -1 })
findUnpaidWeek(pays, userId) ==
  LET S == {i \in 1..Len(pays) : /\ pays[i].user = userId
                                 /\ ~pays[i].paid
                                 /\ pays[i].paymentType = "regular"}
  IN IF S = {} THEN None
     ELSE Some(CHOOSE i \in S : \A j \in S : pays[i].weekStart > pays[j].weekStart
                                          \/ (pays[i].weekStart = pays[j].weekStart /\ i <= j))

\* a find whose status filter lets merged bonuses through
notResetBonusIds(bs, userId) ==
  SetToSeq({i \in 1..Len(bs) : bs[i].user = userId /\ bs[i].status # "reset"})

\* Bonus.find({ user: userId, status: 'pending' }), as the sequence of _ids
pendingBonusIds(bs, userId) ==
  SetToSeq({i \in 1..Len(bs) : bs[i].user = userId /\ bs[i].status = "pending"})

bonusTotal(bs, ids) == SumSeq([k \in 1..Len(ids) |-> bs[ids[k]].amount])
bonusReasons(bs, ids) == [k \in 1..Len(ids) |-> bs[ids[k]].reason]

\* an updateOne in place of the updateMany: only the first drained Bonus is merged
markMergedFirstOnly(bs, ids, pid, now) ==
  [i \in 1..Len(bs) |->
     IF Len(ids) > 0 /\ ids[1] = i
     THEN [bs[i] EXCEPT !.status = "merged", !.mergedIntoPayment = Some(pid),
                        !.mergedAt = Some(now)]
     ELSE bs[i]]

\* Bonus.updateMany({ _id: { $in: ids } }, { status: 'merged', mergedIntoPayment, mergedAt })
markMerged(bs, ids, pid, now) ==
  [i \in 1..Len(bs) |->
     IF \E k \in 1..Len(ids) : ids[k] = i
     THEN [bs[i] EXCEPT !.status = "merged", !.mergedIntoPayment = Some(pid),
                        !.mergedAt = Some(now)]
     ELSE bs[i]]

\* Bonus.updateMany({ user, status: 'pending' }, { status: 'reset' })
markReset(bs, userId) ==
  [i \in 1..Len(bs) |->
     IF bs[i].user = userId /\ bs[i].status = "pending"
     THEN [bs[i] EXCEPT !.status = "reset"]
     ELSE bs[i]]

\* User.findByIdAndUpdate(userId, { $set: { extraBonus: 0, extraBonusReason: '' } })
clearUserBonus(us, userId) ==
  [u \in DOMAIN us |->
     IF u = userId THEN [us[u] EXCEPT !.extraBonus = 0, !.extraBonusReason = None] ELSE us[u]]

\* the earnings breakdown computed at the top of createOrUpdateWeeklyPayment
earningsBreakdown(stats, benchmark) ==
  IF benchmark # None
  THEN LET breakdown == calculateEarnings(benchmark[1], stats)
       IN [baseEarnings |-> breakdown.baseEarnings, bonusEarnings |-> breakdown.bonusEarnings,
           multiplier |-> breakdown.multiplier, totalEarnings |-> breakdown.finalEarnings]
  ELSE LET baseEarnings == stats.totalHours * resolveHourlyRate(benchmark)
       IN [baseEarnings |-> baseEarnings, bonusEarnings |-> 0, multiplier |-> 10,
           totalEarnings |-> baseEarnings]

\* the legacy user.extraBonus that createOrUpdateWeeklyPayment merges and clears
ownerBonus(us, userId) ==
  IF userId \in DOMAIN us /\ us[userId].extraBonus > 0 THEN us[userId].extraBonus ELSE 0

\* an upsert whose $set also carries status: 'pending' and paid: false
createOrUpdateResettingStatus(us, pays, userId, weekStart, weekEnd, stats, benchmark, weekStartDay) ==
  LET hourlyRate == resolveHourlyRate(benchmark)
      e == earningsBreakdown(stats, benchmark)
      extraBonus == ownerBonus(us, userId)
      extraBonusReason == IF extraBonus > 0 THEN us[userId].extraBonusReason ELSE None
      us2 == IF extraBonus > 0 THEN clearUserBonus(us, userId) ELSE us
      found == findRegular(pays, userId, weekStart)
      base == IF found = None THEN NewPayment ELSE pays[found[1]]
      doc == [base EXCEPT !.user = userId, !.weekStart = weekStart, !.weekEnd = weekEnd,
                          !.weekStartDay = weekStartDay, !.paymentType = "regular",
                          !.totalHours = stats.totalHours,
                          !.avgQuality = roundedAvgQuality(stats),
                          !.entryCount = stats.entryCount,
                          !.hourlyRate = hourlyRate, !.baseEarnings = e.baseEarnings,
                          !.performanceMultiplier = e.multiplier,
                          !.bonusEarnings = e.bonusEarnings,
                          !.extraBonus = extraBonus, !.extraBonusReason = extraBonusReason,
                          !.totalEarnings = e.totalEarnings + extraBonus,
                          !.status = "pending", !.paid = FALSE]
  IN [users |-> us2,
      payments |-> IF found = None THEN Append(pays, doc) ELSE [pays EXCEPT ![found[1]] = doc],
      pid |-> IF found = None THEN Len(pays) + 1 ELSE found[1]]

\* WeeklyPayment.createOrUpdateWeeklyPayment: the users and payments collections
\* after the call, and the _id of the returned payment
createOrUpdateWeeklyPayment(us, pays, userId, weekStart, weekEnd, stats, benchmark, weekStartDay) ==
  LET hourlyRate == resolveHourlyRate(benchmark)
      e == earningsBreakdown(stats, benchmark)
      extraBonus == ownerBonus(us, userId)
      extraBonusReason == IF extraBonus > 0 THEN us[userId].extraBonusReason ELSE None
      us2 == IF extraBonus > 0 THEN clearUserBonus(us, userId) ELSE us
      found == findRegular(pays, userId, weekStart)
      base == IF found = None THEN NewPayment ELSE pays[found[1]]
      doc == [base EXCEPT !.user = userId, !.weekStart = weekStart, !.weekEnd = weekEnd,
                          !.weekStartDay = weekStartDay, !.paymentType = "regular",
                          !.totalHours = stats.totalHours,
                          !.avgQuality = roundedAvgQuality(stats),
                          !.entryCount = stats.entryCount,
                          !.hourlyRate = hourlyRate, !.baseEarnings = e.baseEarnings,
                          !.performanceMultiplier = e.multiplier,
                          !.bonusEarnings = e.bonusEarnings,
                          !.extraBonus = extraBonus, !.extraBonusReason = extraBonusReason,
                          !.totalEarnings = e.totalEarnings + extraBonus]
  IN [users |-> us2,
      payments |-> IF found = None THEN Append(pays, doc) ELSE [pays EXCEPT ![found[1]] = doc],
      pid |-> IF found = None THEN Len(pays) + 1 ELSE found[1]]

\* a request handler between two awaits: where it is and the locals it holds
Procs == {"p1", "p2"}
IdleRequest ==
  [pc |-> "idle", op |-> "", userId |-> "", actor |-> "",
   pendingBonuses |-> <<>>, pid |-> 0, loaded |-> None, payment |-> None]

\* the response of the last request: handler, HTTP status, and what it acted on
Response(op, code, user, week, pid, count, pending) ==
  [op |-> op, code |-> code, user |-> user, week |-> week, pid |-> pid,
   count |-> count, pending |-> pending]

\* ----------------------------------------------------------------- Init
InitialEntries ==
  [e \in EntryIds |->
     [worker |-> "u1",
      date |-> IF e = "e1" THEN 3 ELSE 10,
      time |-> IF e = "e1" THEN 8 ELSE 6,
      quality |-> IF e = "e1" THEN 90 ELSE 80,
      adminTime |-> None, adminQuality |-> None, adminApproved |-> FALSE,
      approvedBy |-> None, approvedAt |-> None]]

Init ==
  /\ users = [u \in Users |->
       [weekStartDay |-> Some(DefaultWeekStartDay), extraBonus |-> 0, extraBonusReason |-> None]]
  /\ entries = InitialEntries
  /\ benchmarks \in BenchmarkConfigs
  /\ bonuses = <<>>
  /\ payments = <<>>
  /\ today \in {12}
  /\ lastCall = Response("init", 200, "", None, None, 0, FALSE)
  /\ reqs = [p \in Procs |-> IdleRequest]

\* ------------------------------------------------------- request inputs
VetRequests == {[entryId |-> e, adminTime |-> None, adminQuality |-> None] : e \in EntryIds}
WeekA == {3}
WeekAB == {3, 10}
CanonicalWindows == {[weekStart |-> 2, weekEnd |-> 8]}
GenerateWindows == CanonicalWindows \cup {[weekStart |-> 4, weekEnd |-> 10]}
PaymentIds == 1..Len(payments)
Patches ==
  {[status |-> Some("pending"), extraBonus |-> None],
   [status |-> None, extraBonus |-> Some(0)],
   [status |-> Some("pending"), extraBonus |-> Some(0)]}
DenyReasons == {Some("r1")}
InWeekA(r) == entries[r.entryId].date <= 8

\* ------------------------------------------------------------ superadmin
addExtraBonus(id, amount, reason, actor) ==
  /\ Len(bonuses) < MaxBonuses
  /\ IF amount <= 0
     THEN /\ lastCall' = Response("addExtraBonus", 400, id, None, None, 0, FALSE)
          /\ UNCHANGED <<users, bonuses>>
     ELSE IF id \notin Users
     THEN /\ lastCall' = Response("addExtraBonus", 404, id, None, None, 0, FALSE)
          /\ UNCHANGED <<users, bonuses>>
     ELSE /\ bonuses' = Append(bonuses, NewBonus(id, amount, reason, actor))
          /\ users' = [users EXCEPT ![id].extraBonus = @ + amount,
                                    ![id].extraBonusReason = Some(reason)]
          /\ lastCall' = Response("addExtraBonus", 200, id, None, None, 0, FALSE)
  /\ UNCHANGED <<entries, benchmarks, payments, today, reqs>>

resetExtraBonus(id) ==
  /\ IF id \notin Users
     THEN /\ lastCall' = Response("resetExtraBonus", 404, id, None, None, 0, FALSE)
          /\ UNCHANGED <<users, bonuses>>
     ELSE /\ bonuses' = markReset(bonuses, id)
          /\ users' = clearUserBonus(users, id)
          /\ lastCall' = Response("resetExtraBonus", 200, id, None, None, 0, FALSE)
  /\ UNCHANGED <<entries, benchmarks, payments, today, reqs>>

\* ------------------------------------------------------------ vetting
vettedEntry(entry, adminTime, adminQuality, actor, now) ==
  [entry EXCEPT !.adminTime = IF adminTime # None THEN adminTime ELSE @,
                !.adminQuality = IF adminQuality # None THEN adminQuality ELSE @,
                !.adminApproved = TRUE,
                !.approvedBy = Some(actor),
                !.approvedAt = Some(now)]

vetEntry(r, actor) ==
  LET ents == [entries EXCEPT ![r.entryId] =
                 vettedEntry(entries[r.entryId], r.adminTime, r.adminQuality, actor, today)]
      worker == ents[r.entryId].worker
      weekStartDay == IF worker \in Users THEN userWeekStartDay(worker) ELSE DefaultWeekStartDay
      wb == getWeekBoundaries(ents[r.entryId].date, weekStartDay)
      weekStats == aggregateEntries(ents, worker, wb.weekStart, wb.weekEnd)
      res == createOrUpdateWeeklyPayment(users, payments, worker, wb.weekStart, wb.weekEnd,
                                         weekStats, resolveBenchmark, weekStartDay)
  IN /\ entries' = ents
     /\ users' = res.users
     /\ payments' = res.payments
     /\ lastCall' = Response("vetEntry", 200, worker, Some(wb.weekStart), Some(res.pid), 0, FALSE)
     /\ UNCHANGED <<benchmarks, bonuses, today, reqs>>

\* --------------------------------------------------- payment review
\* an approve guard that misses the 'paid' case
approveRejectedIfApproved(p) == p.status = "approved"

\* approvePayment: 'Payment is already paid' / 'Payment is already approved'
approveRejected(p) == p.status = "paid" \/ p.status = "approved"

\* denyPayment: 'Cannot deny an already paid payment'
denyRejected(p) == p.status = "paid"

approvePayment(pid, actor) ==
  /\ IF pid > Len(payments)
     THEN /\ lastCall' = Response("approvePayment", 404, "", None, Some(pid), 0, FALSE)
          /\ UNCHANGED payments
     ELSE IF approveRejected(payments[pid])
     THEN /\ lastCall' = Response("approvePayment", 400, "", None, Some(pid), 0, FALSE)
          /\ UNCHANGED payments
     ELSE /\ payments' = savePayment(payments, pid,
                 [payments[pid] EXCEPT !.status = "approved",
                                       !.approvedBy = Some(actor), !.approvedAt = Some(today),
                                       !.deniedBy = None, !.deniedAt = None,
                                       !.denialReason = None])
          /\ lastCall' = Response("approvePayment", 200, "", None, Some(pid), 0, FALSE)
  /\ UNCHANGED <<users, entries, benchmarks, bonuses, today, reqs>>

denyPayment(pid, reason, actor) ==
  /\ IF pid > Len(payments)
     THEN /\ lastCall' = Response("denyPayment", 404, "", None, Some(pid), 0, FALSE)
          /\ UNCHANGED payments
     ELSE IF denyRejected(payments[pid])
     THEN /\ lastCall' = Response("denyPayment", 400, "", None, Some(pid), 0, FALSE)
          /\ UNCHANGED payments
     ELSE /\ payments' = savePayment(payments, pid,
                 [payments[pid] EXCEPT !.status = "denied",
                                       !.deniedBy = Some(actor), !.deniedAt = Some(today),
                                       !.denialReason = Some(IfNull(reason, "Denied by admin")),
                                       !.approvedBy = None, !.approvedAt = None])
          /\ lastCall' = Response("denyPayment", 200, "", None, Some(pid), 0, FALSE)
  /\ UNCHANGED <<users, entries, benchmarks, bonuses, today, reqs>>

patchedPayment(p, patch) ==
  LET p1 == IF patch.status # None THEN [p EXCEPT !.status = patch.status[1]] ELSE p
  IN IF patch.extraBonus # None
     THEN [p1 EXCEPT !.extraBonus = patch.extraBonus[1],
                     !.totalEarnings = p.baseEarnings + patch.extraBonus[1]]
     ELSE p1

updateWeeklyPayment(pid, patch) ==
  /\ IF pid > Len(payments)
     THEN /\ lastCall' = Response("updateWeeklyPayment", 404, "", None, Some(pid), 0, FALSE)
          /\ UNCHANGED payments
     ELSE /\ payments' = savePayment(payments, pid, patchedPayment(payments[pid], patch))
          /\ lastCall' = Response("updateWeeklyPayment", 200, "", None, Some(pid), 0, FALSE)
  /\ UNCHANGED <<users, entries, benchmarks, bonuses, today, reqs>>

\* ------------------------------------------------------------ pay actions
\* the record markWeekAsPaid builds from approved entries when the week has none
synthesizedPayment(userId, weekStart, weekEnd, weekStartDay, extraBonus, extraBonusReason) ==
  LET s == aggregateEntries(entries, userId, weekStart, weekEnd)
      benchmark == resolveBenchmark
      hourlyRate == IF benchmark # None /\ benchmark[1].payPerHour # None
                       /\ benchmark[1].payPerHour[1] # 0
                    THEN benchmark[1].payPerHour[1]
                    ELSE DefaultHourlyRate
      baseEarnings == s.totalHours * hourlyRate
  IN [NewPayment EXCEPT !.user = userId, !.weekStart = weekStart, !.weekEnd = weekEnd,
                        !.weekStartDay = weekStartDay, !.paymentType = "regular",
                        !.totalHours = s.totalHours,
                        !.avgQuality = roundedAvgQuality(s),
                        !.entryCount = s.entryCount,
                        !.hourlyRate = hourlyRate, !.baseEarnings = baseEarnings,
                        !.extraBonus = extraBonus, !.extraBonusReason = extraBonusReason,
                        !.totalEarnings = baseEarnings + extraBonus,
                        !.status = "pending", !.paid = FALSE]

\* the pending bonus total added to what the record already holds
withPendingBonusAdded(p, extraBonus, extraBonusReason) ==
  IF extraBonus > 0
  THEN [p EXCEPT !.extraBonus = p.extraBonus + extraBonus,
                 !.extraBonusReason = extraBonusReason,
                 !.totalEarnings = p.baseEarnings + p.extraBonus + extraBonus]
  ELSE p

\* markWeekAsPaid on an existing record: the pending bonus total replaces extraBonus
withPendingBonus(p, extraBonus, extraBonusReason) ==
  IF extraBonus > 0
  THEN [p EXCEPT !.extraBonus = extraBonus, !.extraBonusReason = extraBonusReason,
                 !.totalEarnings = p.baseEarnings + extraBonus]
  ELSE p

paidBy(p, actor, now) ==
  [p EXCEPT !.status = "paid", !.paid = TRUE, !.paidDate = Some(now), !.paidBy = Some(actor)]

\* markBonusPaid, case A: the pending bonus total is added to the unpaid week
withBonusPaid(p, totalBonus, reasons, actor, now) ==
  [p EXCEPT !.extraBonus = p.extraBonus + totalBonus, !.extraBonusReason = reasons,
            !.totalEarnings = p.baseEarnings + p.extraBonus + totalBonus,
            !.status = "paid", !.paid = TRUE,
            !.paidDate = Some(now), !.paidBy = Some(actor),
            !.deniedBy = None, !.deniedAt = None, !.denialReason = None]

markWeekAsPaid(userId, weekStartStr, actor) ==
  /\ IF userId \notin Users
     THEN /\ lastCall' = Response("markWeekAsPaid", 404, userId, None, None, 0, FALSE)
          /\ UNCHANGED <<users, bonuses, payments>>
     ELSE LET weekStartDay == userWeekStartDay(userId)
              wb == getWeekBoundaries(weekStartStr, weekStartDay)
              pendingBonuses == pendingBonusIds(bonuses, userId)
              extraBonus == bonusTotal(bonuses, pendingBonuses)
              extraBonusReason == bonusReasons(bonuses, pendingBonuses)
              found == findRegular(payments, userId, wb.weekStart)
              pid == IF found = None THEN Len(payments) + 1 ELSE found[1]
              payment == IF found = None
                         THEN synthesizedPayment(userId, wb.weekStart, wb.weekEnd, weekStartDay,
                                                 extraBonus, extraBonusReason)
                         ELSE withPendingBonus(payments[pid], extraBonus, extraBonusReason)
          IN /\ payments' = savePayment(payments, pid, paidBy(payment, actor, today))
             /\ IF Len(pendingBonuses) > 0
                THEN /\ bonuses' = markMerged(bonuses, pendingBonuses, pid, today)
                     /\ users' = clearUserBonus(users, userId)
                ELSE UNCHANGED <<bonuses, users>>
             /\ lastCall' = Response("markWeekAsPaid", 200, userId, Some(wb.weekStart),
                                     Some(pid), Len(pendingBonuses), FALSE)
  /\ UNCHANGED <<entries, benchmarks, today, reqs>>

markBonusPaid(userId, actor) ==
  /\ IF userId \notin Users
     THEN /\ lastCall' = Response("markBonusPaid", 404, userId, None, None, 0, FALSE)
          /\ UNCHANGED <<users, bonuses, payments>>
     ELSE LET pendingBonuses == pendingBonusIds(bonuses, userId)
              totalBonus == bonusTotal(bonuses, pendingBonuses)
              reasons == bonusReasons(bonuses, pendingBonuses)
              unpaidWeek == findUnpaidWeek(payments, userId)
          IN IF Len(pendingBonuses) = 0
             THEN /\ lastCall' = Response("markBonusPaid", 400, userId, None, None, 0, FALSE)
                  /\ UNCHANGED <<users, bonuses, payments>>
             ELSE IF unpaidWeek # None
             THEN /\ payments' = savePayment(payments, unpaidWeek[1],
                        withBonusPaid(payments[unpaidWeek[1]], totalBonus, reasons, actor, today))
                  /\ bonuses' = markMerged(bonuses, pendingBonuses, unpaidWeek[1], today)
                  /\ users' = clearUserBonus(users, userId)
                  /\ lastCall' = Response("markBonusPaid", 200, userId,
                                          Some(payments[unpaidWeek[1]].weekStart), unpaidWeek,
                                          Len(pendingBonuses), FALSE)
             ELSE /\ lastCall' = Response("markBonusPaid", 200, userId, None, None,
                                          Len(pendingBonuses), TRUE)
                  /\ UNCHANGED <<users, bonuses, payments>>
  /\ UNCHANGED <<entries, benchmarks, today, reqs>>

\* WeeklyPayment.createBonusPayment: always inserts a new 'bonus' document for the
\* week of now
createBonusPayment(userId, amount, reason) ==
  LET wb == getWeekBoundaries(today, DefaultWeekStartDay)
      doc == [NewPayment EXCEPT !.user = userId, !.weekStart = wb.weekStart,
                                !.weekEnd = wb.weekEnd, !.paymentType = "bonus",
                                !.totalHours = 0, !.avgQuality = 0, !.entryCount = 0,
                                !.hourlyRate = 0, !.baseEarnings = 0,
                                !.performanceMultiplier = 10, !.bonusEarnings = 0,
                                !.extraBonus = amount, !.extraBonusReason = Some(reason),
                                !.totalEarnings = amount,
                                !.status = "pending", !.paid = FALSE]
  IN /\ payments' = savePayment(payments, Len(payments) + 1, doc)
     /\ lastCall' = Response("createBonusPayment", 200, userId, Some(wb.weekStart),
                             Some(Len(payments) + 1), 0, FALSE)
     /\ UNCHANGED <<users, entries, benchmarks, bonuses, today, reqs>>

\* ----------------------------------------------------- bulk generation
workersIn(from, to) ==
  {entries[e].worker : e \in {x \in EntryIds : /\ entries[x].date >= from
                                                /\ entries[x].date <= to
                                                /\ entries[x].adminApproved}}

RECURSIVE generateFor(_, _, _, _, _, _)
generateFor(workers, us, pays, from, to, generated) ==
  IF workers = {} THEN [users |-> us, payments |-> pays, count |-> generated]
  ELSE LET workerId == CHOOSE w \in workers : TRUE
           weekStartDay == IF workerId \in Users THEN userWeekStartDay(workerId)
                           ELSE DefaultWeekStartDay
           s == aggregateEntries(entries, workerId, from, to)
           res == createOrUpdateWeeklyPayment(us, pays, workerId, from, to, s,
                                              resolveBenchmark, weekStartDay)
       IN IF s.entryCount > 0
          THEN generateFor(workers \ {workerId}, res.users, res.payments, from, to, generated + 1)
          ELSE generateFor(workers \ {workerId}, us, pays, from, to, generated)

generateWeeklyPayments(w) ==
  LET res == generateFor(workersIn(w.weekStart, w.weekEnd), users, payments,
                         w.weekStart, w.weekEnd, 0)
  IN /\ users' = res.users
     /\ payments' = res.payments
     /\ lastCall' = Response("generateWeeklyPayments", 200, "", Some(w.weekStart), None,
                             res.count, FALSE)
     /\ UNCHANGED <<entries, benchmarks, bonuses, today, reqs>>

\* ------------------------------------------------------------------ Next
NoBonusPayment == \A i \in 1..Len(payments) : payments[i].paymentType # "bonus"

\* the payment handlers on the week of day 3, with one 'bonus' document at most
Next ==
  \/ \E amount \in BonusAmounts, reason \in Reasons, actor \in Actors :
       addExtraBonus("u1", amount, reason, actor)
  \/ \E r \in VetRequests, actor \in Actors : InWeekA(r) /\ vetEntry(r, actor)
  \/ \E pid \in PaymentIds, actor \in Actors : approvePayment(pid, actor)
  \/ \E pid \in PaymentIds, reason \in DenyReasons, actor \in Actors :
       denyPayment(pid, reason, actor)
  \/ \E pid \in PaymentIds, patch \in Patches : updateWeeklyPayment(pid, patch)
  \/ \E userId \in Users, d \in WeekA, actor \in Actors : markWeekAsPaid(userId, d, actor)
  \/ \E userId \in Users, actor \in Actors : markBonusPaid(userId, actor)
  \/ \E amount \in BonusAmounts, reason \in Reasons :
       NoBonusPayment /\ createBonusPayment("u1", amount, reason)

Spec == Init /\ [][Next]_vars

\* the handlers that create payments and move bonuses, over two weeks
NextWeeks ==
  \/ \E amount \in BonusAmounts, reason \in Reasons, actor \in Actors :
       addExtraBonus("u1", amount, reason, actor)
  \/ \E r \in VetRequests, actor \in Actors : vetEntry(r, actor)
  \/ \E userId \in Users, d \in WeekAB, actor \in Actors : markWeekAsPaid(userId, d, actor)
  \/ \E userId \in Users, actor \in Actors : markBonusPaid(userId, actor)
  \/ \E w \in GenerateWindows : generateWeeklyPayments(w)

SpecWeeks == Init /\ [][NextWeeks]_vars

\* ----------------------------------------- pay actions, await by await
\* document.save() of a loaded document writes the paths modified since it was
\* loaded (after the pre-save hook); a new document is inserted
saveModified(pays, pid, loaded, doc) ==
  IF loaded = None THEN Append(pays, preSave(doc))
  ELSE LET d == preSave(doc)
       IN [pays EXCEPT ![pid] =
             [f \in DOMAIN d |-> IF d[f] # loaded[1][f] THEN d[f] ELSE pays[pid][f]]]

\* markWeekAsPaid up to payment.save(): the reads, and the document built in memory
markWeekAsPaidRead(p, userId, weekStartStr, actor) ==
  /\ reqs[p].pc = "idle"
  /\ userId \in Users
  /\ LET weekStartDay == userWeekStartDay(userId)
         wb == getWeekBoundaries(weekStartStr, weekStartDay)
         pendingBonuses == pendingBonusIds(bonuses, userId)
         extraBonus == bonusTotal(bonuses, pendingBonuses)
         extraBonusReason == bonusReasons(bonuses, pendingBonuses)
         found == findRegular(payments, userId, wb.weekStart)
         payment == IF found = None
                    THEN synthesizedPayment(userId, wb.weekStart, wb.weekEnd, weekStartDay,
                                            extraBonus, extraBonusReason)
                    ELSE withPendingBonus(payments[found[1]], extraBonus, extraBonusReason)
     IN reqs' = [reqs EXCEPT ![p] =
          [pc |-> "read", op |-> "markWeekAsPaid", userId |-> userId, actor |-> actor,
           pendingBonuses |-> pendingBonuses,
           pid |-> IF found = None THEN 0 ELSE found[1],
           loaded |-> IF found = None THEN None ELSE Some(payments[found[1]]),
           payment |-> Some(paidBy(payment, actor, today))]]
  /\ UNCHANGED <<users, entries, benchmarks, bonuses, payments, today, lastCall>>

\* markBonusPaid up to unpaidWeek.save(), case A
markBonusPaidRead(p, userId, actor) ==
  /\ reqs[p].pc = "idle"
  /\ userId \in Users
  /\ LET pendingBonuses == pendingBonusIds(bonuses, userId)
         totalBonus == bonusTotal(bonuses, pendingBonuses)
         reasons == bonusReasons(bonuses, pendingBonuses)
         unpaidWeek == findUnpaidWeek(payments, userId)
     IN /\ Len(pendingBonuses) > 0
        /\ unpaidWeek # None
        /\ reqs' = [reqs EXCEPT ![p] =
             [pc |-> "read", op |-> "markBonusPaid", userId |-> userId, actor |-> actor,
              pendingBonuses |-> pendingBonuses, pid |-> unpaidWeek[1],
              loaded |-> Some(payments[unpaidWeek[1]]),
              payment |-> Some(withBonusPaid(payments[unpaidWeek[1]], totalBonus, reasons,
                                             actor, today))]]
  /\ UNCHANGED <<users, entries, benchmarks, bonuses, payments, today, lastCall>>

\* await payment.save()
paySave(p) ==
  /\ reqs[p].pc = "read"
  /\ payments' = saveModified(payments, reqs[p].pid, reqs[p].loaded, reqs[p].payment[1])
  /\ reqs' = [reqs EXCEPT ![p].pc = "saved",
                          ![p].pid = IF reqs[p].loaded = None THEN Len(payments) + 1 ELSE @]
  /\ UNCHANGED <<users, entries, benchmarks, bonuses, today, lastCall>>

\* await Bonus.updateMany(...); await User.findByIdAndUpdate(...); res.json(...)
payMerge(p) ==
  /\ reqs[p].pc = "saved"
  /\ IF Len(reqs[p].pendingBonuses) > 0
     THEN /\ bonuses' = markMerged(bonuses, reqs[p].pendingBonuses, reqs[p].pid, today)
          /\ users' = clearUserBonus(users, reqs[p].userId)
     ELSE UNCHANGED <<bonuses, users>>
  /\ lastCall' = Response(reqs[p].op, 200, reqs[p].userId,
                          Some(payments[reqs[p].pid].weekStart), Some(reqs[p].pid),
                          Len(reqs[p].pendingBonuses), FALSE)
  /\ reqs' = [reqs EXCEPT ![p] = IdleRequest]
  /\ UNCHANGED <<entries, benchmarks, payments, today>>

\* the pay handlers running concurrently, one await at a time, with bonuses
\* granted and reset in between; entry e1 has been vetted, so its week has an
\* unpaid regular record
InitConc ==
  /\ users = [u \in Users |->
       [weekStartDay |-> Some(DefaultWeekStartDay), extraBonus |-> 0, extraBonusReason |-> None]]
  /\ entries = [InitialEntries EXCEPT
                  !["e1"] = vettedEntry(InitialEntries["e1"], None, None, "admin", 12)]
  /\ benchmarks = {ScoreBenchmark}
  /\ bonuses = <<>>
  /\ today = 12
  /\ payments = LET wb == getWeekBoundaries(entries["e1"].date, userWeekStartDay("u1"))
                IN createOrUpdateWeeklyPayment(users, <<>>, "u1", wb.weekStart, wb.weekEnd,
                       aggregateEntries(entries, "u1", wb.weekStart, wb.weekEnd),
                       resolveBenchmark, userWeekStartDay("u1")).payments
  /\ lastCall = Response("vetEntry", 200, "u1", Some(payments[1].weekStart), Some(1), 0, FALSE)
  /\ reqs = [p \in Procs |-> IdleRequest]

NextConc ==
  \/ \E amount \in BonusAmounts, reason \in Reasons, actor \in Actors :
       addExtraBonus("u1", amount, reason, actor)
  \/ \E id \in Users : resetExtraBonus(id)
  \/ \E p \in Procs, userId \in Users, d \in WeekA, actor \in Actors :
       markWeekAsPaidRead(p, userId, d, actor)
  \/ \E p \in Procs, userId \in Users, actor \in Actors : markBonusPaidRead(p, userId, actor)
  \/ \E p \in Procs : paySave(p)
  \/ \E p \in Procs : payMerge(p)

SpecConc == InitConc /\ [][NextConc]_vars

\* ====================================================================
\* Properties
\* ====================================================================
extraBonusSum(u) ==
  SumSeq([i \in 1..Len(payments) |-> IF payments[i].user = u THEN payments[i].extraBonus ELSE 0])

bonusSum(bs, u, statuses) ==
  SumSeq([i \in 1..Len(bs) |->
            IF bs[i].user = u /\ bs[i].status \in statuses THEN bs[i].amount ELSE 0])

regularsOf(pays, u, weekStart) ==
  {i \in 1..Len(pays) : /\ pays[i].user = u /\ pays[i].weekStart = weekStart
                        /\ pays[i].paymentType = "regular"}

\* C1: for each user, the extraBonus of all of the user's WeeklyPayment records
\* together never exceeds the total amount of the user's Bonus records that are
\* not 'reset' (no bonus is counted twice).
C1_NoBonusDoubleCounted ==
  \A u \in Users : extraBonusSum(u) <= bonusSum(bonuses, u, {"pending", "merged"})

\* C2: a successful markWeekAsPaid raises the extraBonus of the week's regular
\* record by exactly the pending bonus total B (from 0 when the record is
\* synthesized), leaves every drained Bonus 'merged' and linked to that record,
\* and leaves no pending bonus.
C2_BonusMergeConservation ==
  [][(lastCall'.op = "markWeekAsPaid" /\ lastCall'.code = 200) =>
       LET u == lastCall'.user
           pid == lastCall'.pid[1]
           B == bonusSum(bonuses, u, {"pending"})
           before == IF pid <= Len(payments) THEN payments[pid].extraBonus ELSE 0
       IN /\ payments'[pid].extraBonus = before + B
          /\ \A i \in 1..Len(bonuses) :
               (bonuses[i].user = u /\ bonuses[i].status = "pending") =>
                 /\ bonuses'[i].status = "merged"
                 /\ bonuses'[i].mergedIntoPayment = Some(pid)
          /\ bonusSum(bonuses', u, {"pending"}) = 0]_vars

\* C3: every 'regular' WeeklyPayment has totalEarnings = baseEarnings +
\* bonusEarnings + extraBonus, and every 'bonus' one has totalEarnings = extraBonus.
C3_TotalEarnings ==
  \A i \in 1..Len(payments) :
    IF payments[i].paymentType = "bonus"
    THEN payments[i].totalEarnings = payments[i].extraBonus
    ELSE payments[i].totalEarnings =
           payments[i].baseEarnings + payments[i].bonusEarnings + payments[i].extraBonus

C3_Witness ==
  /\ \E i \in 1..Len(payments) :
       /\ payments[i].paymentType = "regular" /\ payments[i].paid
       /\ payments[i].bonusEarnings # 0 /\ payments[i].extraBonus > 0
  /\ \E i \in 1..Len(payments) :
       /\ payments[i].paymentType = "bonus" /\ payments[i].status = "approved"
       /\ payments[i].extraBonus = 0
  /\ lastCall.op = "updateWeeklyPayment"

C5_IdempotentUpsert ==
  [][(/\ lastCall.op = "vetEntry" /\ lastCall'.op = "vetEntry"
      /\ lastCall'.user = lastCall.user /\ lastCall'.week = lastCall.week
      /\ payments'[lastCall'.pid[1]].totalHours = payments[lastCall.pid[1]].totalHours
      /\ payments'[lastCall'.pid[1]].avgQuality = payments[lastCall.pid[1]].avgQuality
      /\ payments'[lastCall'.pid[1]].entryCount = payments[lastCall.pid[1]].entryCount) =>
       /\ Cardinality(regularsOf(payments', lastCall'.user, lastCall'.week[1])) = 1
       /\ payments'[lastCall'.pid[1]].totalEarnings
            = payments[lastCall.pid[1]].totalEarnings]_vars

\* C6: a markWeekAsPaid that directly follows a markWeekAsPaid for the same user
\* and week finds no pending Bonus and leaves the record's extraBonus and
\* totalEarnings as the first call left them.
C6_NoDoublePay ==
  [][(/\ lastCall.op = "markWeekAsPaid" /\ lastCall.code = 200
      /\ lastCall'.op = "markWeekAsPaid" /\ lastCall'.code = 200
      /\ lastCall'.user = lastCall.user /\ lastCall'.week = lastCall.week) =>
       /\ lastCall'.count = 0
       /\ lastCall'.pid = lastCall.pid
       /\ payments'[lastCall'.pid[1]].extraBonus = payments[lastCall.pid[1]].extraBonus
       /\ payments'[lastCall'.pid[1]].totalEarnings
            = payments[lastCall.pid[1]].totalEarnings]_vars

\* a markWeekAsPaid that drained nothing, on a week that only markWeekAsPaid can
\* have created (no vetted entry) and that holds a bonus merged by an earlier call
C6_Witness ==
  /\ lastCall.op = "markWeekAsPaid" /\ lastCall.code = 200 /\ lastCall.count = 0
  /\ payments[lastCall.pid[1]].entryCount = 0
  /\ payments[lastCall.pid[1]].extraBonus > 0
  /\ \E i \in 1..Len(bonuses) :
       bonuses[i].status = "merged" /\ bonuses[i].mergedIntoPayment = lastCall.pid

\* C7: the status of a regular WeeklyPayment moves only pending->approved,
\* pending->denied, approved->denied, denied->approved or ->paid, and never
\* leaves 'paid'.
StatusEdges ==
  {<<"pending", "approved">>, <<"pending", "denied">>, <<"approved", "denied">>,
   <<"denied", "approved">>, <<"pending", "paid">>, <<"approved", "paid">>,
   <<"denied", "paid">>}

C7_StatusMachine ==
  [][\A i \in 1..Len(payments) :
       payments[i].paymentType = "regular" =>
         \/ payments'[i].status = payments[i].status
         \/ <<payments[i].status, payments'[i].status>> \in StatusEdges]_vars

\* C8: approvePayment on a 'paid' or 'approved' payment and denyPayment on a 'paid'
\* one answer 400 and change nothing; approvePayment on a 'denied' payment makes it
\* 'approved' and clears the denial fields; denyPayment on an 'approved' payment
\* makes it 'denied', records reason and actor and clears the approval fields.
C8_ReviewGuards ==
  [][LET pid == lastCall'.pid[1] IN
     /\ lastCall'.op = "approvePayment" =>
          /\ payments[pid].status \in {"paid", "approved"} =>
               lastCall'.code = 400 /\ payments' = payments
          /\ payments[pid].status = "denied" =>
               /\ lastCall'.code = 200
               /\ payments'[pid].status = "approved"
               /\ payments'[pid].deniedBy = None /\ payments'[pid].deniedAt = None
               /\ payments'[pid].denialReason = None
     /\ lastCall'.op = "denyPayment" =>
          /\ payments[pid].status = "paid" =>
               lastCall'.code = 400 /\ payments' = payments
          /\ payments[pid].status = "approved" =>
               /\ lastCall'.code = 200
               /\ payments'[pid].status = "denied"
               /\ payments'[pid].denialReason \in {Some(r) : r \in Reasons}
               /\ payments'[pid].deniedBy \in {Some(a) : a \in Actors}
               /\ payments'[pid].approvedBy = None /\ payments'[pid].approvedAt = None]_vars

C8_Witness ==
  /\ lastCall.op = "approvePayment" /\ lastCall.code = 400
  /\ payments[lastCall.pid[1]].status = "paid"
  /\ payments[lastCall.pid[1]].paid

\* C10: no WeeklyPayment's extraBonus includes a Bonus that is still 'pending':
\* what the user's payments hold is covered by the user's 'merged' Bonus records.
C10_PendingNotFolded ==
  \A u \in Users : extraBonusSum(u) <= bonusSum(bonuses, u, {"merged"})

\* C9: a Bonus moves only pending->merged or pending->reset, 'merged' and 'reset'
\* are final, and mergedIntoPayment is set when the Bonus becomes 'merged' and
\* never changes afterwards.
C9_BonusLifecycle ==
  [][\A i \in 1..Len(bonuses) :
       /\ \/ bonuses'[i].status = bonuses[i].status
          \/ bonuses[i].status = "pending" /\ bonuses'[i].status \in {"merged", "reset"}
       /\ bonuses'[i].status = "merged" => bonuses'[i].mergedIntoPayment # None
       /\ bonuses[i].status = "merged" =>
            bonuses'[i].mergedIntoPayment = bonuses[i].mergedIntoPayment]_vars

\* ====================================================================
\* Paying out bonuses: one week, bonuses granted and reset, and a markBonusPaid
\* for a user id that matches no User
\* ====================================================================
NoUser == "nobody"

NextPay ==
  \/ \E amount \in BonusAmounts, reason \in Reasons, actor \in Actors :
       addExtraBonus("u1", amount, reason, actor)
  \/ \E id \in Users : resetExtraBonus(id)
  \/ \E r \in VetRequests, actor \in Actors : InWeekA(r) /\ vetEntry(r, actor)
  \/ \E userId \in Users, d \in WeekA, actor \in Actors : markWeekAsPaid(userId, d, actor)
  \/ \E userId \in Users \cup {NoUser}, actor \in Actors : markBonusPaid(userId, actor)

SpecPay == Init /\ [][NextPay]_vars

C20_BonusPaidErrors ==
  [][lastCall'.op = "markBonusPaid" =>
       /\ lastCall'.user \notin Users =>
            /\ lastCall'.code = 404
            /\ bonuses' = bonuses /\ payments' = payments /\ users' = users
       /\ (/\ lastCall'.user \in Users
           /\ \A i \in 1..Len(bonuses) :
                bonuses[i].user = lastCall'.user => bonuses[i].status # "pending") =>
            /\ lastCall'.code = 400
            /\ bonuses' = bonuses /\ payments' = payments /\ users' = users]_vars

\* a 400 for a user whose bonuses are all merged or reset
C20_Witness ==
  /\ lastCall.op = "markBonusPaid" /\ lastCall.code = 400
  /\ \E i \in 1..Len(bonuses) : bonuses[i].status = "merged"
  /\ \E i \in 1..Len(bonuses) : bonuses[i].status = "reset"

\* C12: a successful markWeekAsPaid leaves the week's regular record with status
\* 'paid', paid = true, paidDate and paidBy set to the call's time and actor, and
\* deniedBy, deniedAt and denialReason cleared, whatever its status was before.
C12_PaidFields ==
  [][(lastCall'.op = "markWeekAsPaid" /\ lastCall'.code = 200) =>
       LET p == payments'[lastCall'.pid[1]]
       IN /\ p.status = "paid" /\ p.paid
          /\ p.paidDate = Some(today) /\ p.paidBy \in {Some(a) : a \in Actors}
          /\ p.deniedBy = None /\ p.deniedAt = None /\ p.denialReason = None]_vars

\* C13: the upsert made by vetEntry leaves status, paid, paidDate and paidBy of an
\* existing regular record as they were, whatever its status; a record it
\* inserts has status 'pending' and paid = false.
C13_UpsertKeepsStatus ==
  [][(lastCall'.op = "vetEntry" /\ lastCall'.code = 200 /\ lastCall'.pid # None) =>
       LET pid == lastCall'.pid[1]
           existing == regularsOf(payments, lastCall'.user, lastCall'.week[1])
       IN /\ \A i \in existing :
               /\ payments'[i].status = payments[i].status
               /\ payments'[i].paid = payments[i].paid
               /\ payments'[i].paidDate = payments[i].paidDate
               /\ payments'[i].paidBy = payments[i].paidBy
          /\ existing = {} =>
               /\ pid = Len(payments) + 1
               /\ payments'[pid].status = "pending" /\ ~payments'[pid].paid]_vars

\* an entry vetted into a week that is already paid
C13_Witness ==
  /\ lastCall.op = "vetEntry" /\ lastCall.code = 200
  /\ payments[lastCall.pid[1]].status = "paid" /\ payments[lastCall.pid[1]].paid
  /\ payments[lastCall.pid[1]].paidBy # None
  /\ payments[lastCall.pid[1]].extraBonus = 0
  /\ \E i \in 1..Len(bonuses) : bonuses[i].mergedIntoPayment = lastCall.pid

\* ====================================================================
\* Vetting: four entries of one worker, three in the week of days 2..8 (two of
\* them on its first and last day) and one on day 9; admin overrides; and
\* the payment materialization failing at one of its awaits
\* ====================================================================
VetEntryIds == {"e1", "e2", "e3", "e4"}

VetEntries ==
  [e \in VetEntryIds |->
     [worker |-> "u1",
      date |-> CASE e = "e1" -> 2 [] e = "e2" -> 5 [] e = "e3" -> 8 [] OTHER -> 9,
      time |-> CASE e = "e1" -> 8 [] e = "e2" -> 6 [] e = "e3" -> 10 [] OTHER -> 4,
      quality |-> CASE e = "e1" -> 90 [] e = "e2" -> 80 [] e = "e3" -> 70 [] OTHER -> 60,
      adminTime |-> None, adminQuality |-> None, adminApproved |-> FALSE,
      approvedBy |-> None, approvedAt |-> None]]

InitVet ==
  /\ users = [u \in Users |->
       [weekStartDay |-> Some(DefaultWeekStartDay), extraBonus |-> 0, extraBonusReason |-> None]]
  /\ entries = VetEntries
  /\ benchmarks \in BenchmarkConfigs
  /\ bonuses = <<>>
  /\ payments = <<>>
  /\ today = 12
  /\ lastCall = Response("init", 200, "", None, None, 0, FALSE)
  /\ reqs = [p \in Procs |-> IdleRequest]

\* req.body of vetEntry: the entry, and for e2 with or without admin values
VetOverrides ==
  {[entryId |-> e, adminTime |-> None, adminQuality |-> None] : e \in VetEntryIds}
    \cup {[entryId |-> "e2", adminTime |-> Some(5), adminQuality |-> Some(85)]}

\* the awaits inside vetEntry's try block (the last two inside
\* createOrUpdateWeeklyPayment: owner.save() and findOneAndUpdate)
VetSteps == {"worker", "benchmark", "aggregate", "owner", "update"}

\* a rethrow in the catch block: the failure reaches the error handler
vetFailureRethrown(step) == 500

\* catch (err) { console.error(...) }, then res.json({ success: true, ... })
vetFailureCode(step) == 200

\* vetEntry when the await `step` of the try block throws: the entry is saved, and
\* of the materialization only what ran before `step` has happened
vetEntryFailed(r, actor, step) ==
  LET ents == [entries EXCEPT ![r.entryId] =
                 vettedEntry(entries[r.entryId], r.adminTime, r.adminQuality, actor, today)]
      worker == ents[r.entryId].worker
  IN /\ entries' = ents
     /\ users' = IF step = "update" /\ ownerBonus(users, worker) > 0
                 THEN clearUserBonus(users, worker) ELSE users
     /\ lastCall' = Response("vetEntry", vetFailureCode(step), worker, None, None, 0, FALSE)
                      @@ [entry |-> r.entryId]
     /\ UNCHANGED <<benchmarks, bonuses, payments, today, reqs>>

NextVet ==
  \/ \E amount \in BonusAmounts, reason \in Reasons, actor \in Actors :
       addExtraBonus("u1", amount, reason, actor)
  \/ \E r \in VetOverrides, actor \in Actors : vetEntry(r, actor)
  \/ \E r \in VetOverrides, actor \in Actors, step \in VetSteps : vetEntryFailed(r, actor, step)

SpecVet == InitVet /\ [][NextVet]_vars

\* C14: when the payment materialization of vetEntry fails, vetEntry still
\* answers success and the entry is saved with adminApproved = true.
C14_VetBestEffort ==
  [][(lastCall'.op = "vetEntry" /\ lastCall'.pid = None) =>
       /\ lastCall'.code = 200
       /\ entries'[lastCall'.entry].adminApproved
       /\ entries'[lastCall'.entry].approvedBy \in {Some(a) : a \in Actors}
       /\ payments' = payments]_vars

\* a failed materialization that left an approved entry without a record for its
\* week and took the user's bonus with it
C14_Witness ==
  /\ lastCall.op = "vetEntry" /\ lastCall.pid = None /\ lastCall.entry = "e4"
  /\ entries["e4"].adminApproved
  /\ regularsOf(payments, "u1", 9) = {}
  /\ regularsOf(payments, "u1", 2) # {}
  /\ users["u1"].extraBonus = 0
  /\ extraBonusSum("u1") = 0
  /\ Len(bonuses) > 0

\* the approved entries of a worker dated within [from, to]
approvedIn(ents, worker, from, to) ==
  {e \in DOMAIN ents : /\ ents[e].worker = worker /\ ents[e].adminApproved
                       /\ from <= ents[e].date /\ ents[e].date <= to}

RECURSIVE effectiveHours(_, _)
effectiveHours(ents, S) ==
  IF S = {} THEN 0
  ELSE LET e == CHOOSE x \in S : TRUE
       IN (IF ents[e].adminTime # None THEN ents[e].adminTime[1] ELSE ents[e].time)
            + effectiveHours(ents, S \ {e})

RECURSIVE effectiveQuality(_, _)
effectiveQuality(ents, S) ==
  IF S = {} THEN 0
  ELSE LET e == CHOOSE x \in S : TRUE
       IN (IF ents[e].adminQuality # None THEN ents[e].adminQuality[1] ELSE ents[e].quality)
            + effectiveQuality(ents, S \ {e})

\* C15 as stated: right after a successful vetEntry the week's regular record has
\* entryCount = the number of the worker's approved entries dated within
\* [weekStart, weekEnd], totalHours = the sum of their adminTime-else-time, and
\* avgQuality = the mean of their adminQuality-else-quality (avgQuality is kept
\* in hundredths); a window without entries aggregates to zeros.
C15_AggregationExactMean ==
  [][(lastCall'.op = "vetEntry" /\ lastCall'.code = 200 /\ lastCall'.pid # None) =>
       LET p == payments'[lastCall'.pid[1]]
           W == approvedIn(entries', lastCall'.user, p.weekStart, p.weekEnd)
       IN /\ p.entryCount = Cardinality(W)
          /\ p.totalHours = effectiveHours(entries', W)
          /\ p.avgQuality * Cardinality(W) = 100 * effectiveQuality(entries', W)
          /\ aggregateEntries(entries', lastCall'.user, 16, 22).entryCount = 0
          /\ aggregateEntries(entries', lastCall'.user, 16, 22).totalHours = 0
          /\ roundedAvgQuality(aggregateEntries(entries', lastCall'.user, 16, 22)) = 0]_vars

\* C15 with the stored precision: as above, with avgQuality = the mean rounded
\* half up to two decimals (q hundredths with q - 1/2 <= 100 * mean < q + 1/2).
C15_AggregationRoundedMean ==
  [][(lastCall'.op = "vetEntry" /\ lastCall'.code = 200 /\ lastCall'.pid # None) =>
       LET p == payments'[lastCall'.pid[1]]
           W == approvedIn(entries', lastCall'.user, p.weekStart, p.weekEnd)
           n == Cardinality(W)
           q == effectiveQuality(entries', W)
       IN /\ p.entryCount = n
          /\ p.totalHours = effectiveHours(entries', W)
          /\ (2 * p.avgQuality - 1) * n <= 200 * q
          /\ 200 * q < (2 * p.avgQuality + 1) * n
          /\ aggregateEntries(entries', lastCall'.user, 16, 22).entryCount = 0
          /\ aggregateEntries(entries', lastCall'.user, 16, 22).totalHours = 0
          /\ roundedAvgQuality(aggregateEntries(entries', lastCall'.user, 16, 22)) = 0]_vars

\* the week of days 2..8 with its first-day and last-day entries and an
\* overridden one approved, whose mean quality 245/3 has no two-decimal value,
\* while the approved entry of day 9 stays outside
C15_Witness ==
  /\ lastCall.op = "vetEntry" /\ lastCall.code = 200 /\ lastCall.week = Some(2)
  /\ \A e \in VetEntryIds : entries[e].adminApproved
  /\ entries["e2"].adminTime = Some(5) /\ entries["e2"].adminQuality = Some(85)
  /\ payments[lastCall.pid[1]].entryCount = 3
  /\ payments[lastCall.pid[1]].totalHours = 23
  /\ payments[lastCall.pid[1]].avgQuality = 8167

\* C16: every regular WeeklyPayment has weekStart and weekEnd equal to the
\* boundaries getWeekBoundaries gives for its weekStart and its worker's
\* weekStartDay, and all approved entries of a worker that fall in one such
\* week are counted in one record only.
C16_CanonicalWeeks ==
  \A i \in 1..Len(payments) :
    payments[i].paymentType = "regular" =>
      LET wb == getWeekBoundaries(payments[i].weekStart, userWeekStartDay(payments[i].user))
      IN /\ payments[i].weekStart = wb.weekStart
         /\ payments[i].weekEnd = wb.weekEnd

\* ====================================================================
\* The pure functions of the engine, applied to inputs drawn from small sets;
\* lastCall holds the arguments and the result of the last application.
\* A date is a number of ticks, TicksPerDay of them to a UTC day (tick 0 is
\* midnight of a Sunday), so the last tick of a day stands for 23:59:59.999.
\* ====================================================================
TicksPerDay == 4
FnDays == 8

FnDates == 0 .. (FnDays * TicksPerDay - 1)
WeekStartDays == 0..6

\* d.setUTCHours(0, 0, 0, 0)
startOfDayUTC(date) == date - (date % TicksPerDay)

\* d.getUTCDay()
getUTCDay(date) == (date \div TicksPerDay) % 7

\* daysBack computed without the + 7: JavaScript's % keeps the sign of the
\* dividend, so the week start can fall after the date
getWeekBoundariesNoWrap(date, weekStartDay) ==
  LET d == startOfDayUTC(date)
      daysBack == getUTCDay(d) - weekStartDay
      weekStart == d - daysBack * TicksPerDay
  IN [weekStart |-> weekStart, weekEnd |-> weekStart + 6 * TicksPerDay + (TicksPerDay - 1)]

\* WeeklyPayment.getWeekBoundaries on timestamps
getWeekBoundariesAt(date, weekStartDay) ==
  LET d == startOfDayUTC(date)
      daysBack == (getUTCDay(d) - weekStartDay + 7) % 7
      weekStart == d - daysBack * TicksPerDay
  IN [weekStart |-> weekStart, weekEnd |-> weekStart + 6 * TicksPerDay + (TicksPerDay - 1)]

OldBenchmark ==
  [id |-> 1, isActive |-> TRUE, startDate |-> 1, endDate |-> 5, payPerHour |-> None,
   earningsMode |-> "flat", thresholds |-> DefaultThresholds, bonusRates |-> DefaultBonusRates]
NewBenchmark ==
  [id |-> 3, isActive |-> TRUE, startDate |-> 10, endDate |-> 30, payPerHour |-> Some(1500),
   earningsMode |-> "flat", thresholds |-> DefaultThresholds, bonusRates |-> DefaultBonusRates]
InactiveBenchmark ==
  [id |-> 4, isActive |-> FALSE, startDate |-> 11, endDate |-> 40, payPerHour |-> Some(3000),
   earningsMode |-> "score", thresholds |-> DefaultThresholds, bonusRates |-> DefaultBonusRates]
BenchmarkPool == {OldBenchmark, ScoreBenchmark, NewBenchmark, InactiveBenchmark}
FnTodays == {3, 12, 35}
\* contents of the Benchmark collection
BenchmarkSets ==
  {{}, {InactiveBenchmark}, {OldBenchmark, InactiveBenchmark}, {OldBenchmark, ScoreBenchmark},
   {ScoreBenchmark, NewBenchmark}, BenchmarkPool}

\* benchmarks handed to calculateEarnings: both modes, payPerHour unset, 0 and
\* set, the default bonusRates and a set that pays nothing below the minimum
NoPayBelowRates == [DefaultBonusRates EXCEPT !.below = 0]
CalcBenchmarks ==
  {[ScoreBenchmark EXCEPT !.earningsMode = m, !.payPerHour = pay, !.bonusRates = rates] :
     m \in {"flat", "score"}, pay \in {None, Some(0), Some(1000)},
     rates \in {DefaultBonusRates, NoPayBelowRates}}
CalcHours == {0, 8}
\* <<avgQuality, avgTime>>: scores 85, 80, 79.6, 70, 60, 50, 49.6 and 0
CalcScores ==
  {<<85, 85>>, <<80, 80>>, <<86, 70>>, <<70, 70>>, <<60, 60>>, <<50, 50>>, <<56, 40>>, <<0, 0>>}

InitFn ==
  /\ users = [u \in Users |->
       [weekStartDay |-> Some(DefaultWeekStartDay), extraBonus |-> 0, extraBonusReason |-> None]]
  /\ entries = InitialEntries
  /\ benchmarks \in BenchmarkSets
  /\ bonuses = <<>>
  /\ payments = <<>>
  /\ today \in FnTodays
  /\ lastCall = Response("init", 200, "", None, None, 0, FALSE)
  /\ reqs = [p \in Procs |-> IdleRequest]

callGetWeekBoundaries(date, weekStartDay) ==
  /\ lastCall' = [op |-> "getWeekBoundaries", date |-> date, weekStartDay |-> weekStartDay,
                  result |-> getWeekBoundariesAt(date, weekStartDay)]
  /\ UNCHANGED <<users, entries, benchmarks, bonuses, payments, today, reqs>>

\* benchmark.calculateEarnings(hours, avgQuality * 0.6 + avgTime * 0.4)
callCalculateEarnings(b, hours, avgQuality, avgTime) ==
  /\ lastCall' = [op |-> "calculateEarnings", benchmark |-> b, hours |-> hours,
                  score10 |-> 6 * avgQuality + 4 * avgTime,
                  result |-> calculateEarnings(b, [totalHours |-> hours, qualitySum |-> avgQuality,
                                                   timeSum |-> avgTime, entryCount |-> 1])]
  /\ UNCHANGED <<users, entries, benchmarks, bonuses, payments, today, reqs>>

\* (await Benchmark.getCurrentBenchmark()) || (await Benchmark.getLatestBenchmark())
callResolveBenchmark ==
  /\ lastCall' = [op |-> "resolveBenchmark", result |-> resolveBenchmark]
  /\ UNCHANGED <<users, entries, benchmarks, bonuses, payments, today, reqs>>

NextFn ==
  \/ \E date \in FnDates, weekStartDay \in WeekStartDays :
       callGetWeekBoundaries(date, weekStartDay)
  \/ \E b \in CalcBenchmarks, hours \in CalcHours, sc \in CalcScores :
       callCalculateEarnings(b, hours, sc[1], sc[2])
  \/ callResolveBenchmark

SpecFn == InitFn /\ [][NextFn]_vars

\* C17: for weekStartDay in 0..6 and any date d, getWeekBoundaries(d, weekStartDay)
\* gives a weekStart at midnight UTC whose weekday is weekStartDay and that lies
\* 0 to 6 days before d's day, a weekEnd at the last instant of the sixth day
\* after it, and the same pair for every date from weekStart to weekEnd.
C17_WeekKeyStable ==
  lastCall.op = "getWeekBoundaries" =>
    LET r == lastCall.result
        day == lastCall.date \div TicksPerDay
    IN /\ r.weekStart % TicksPerDay = 0
       /\ (r.weekStart \div TicksPerDay) % 7 = lastCall.weekStartDay
       /\ day - (r.weekStart \div TicksPerDay) \in 0..6
       /\ r.weekEnd = r.weekStart + 7 * TicksPerDay - 1
       /\ \A other \in r.weekStart .. r.weekEnd :
            getWeekBoundariesAt(other, lastCall.weekStartDay) = r

\* late on a Sunday in a worker's Monday-based week: the week began six days ago
C17_Witness ==
  /\ lastCall.op = "getWeekBoundaries"
  /\ lastCall.weekStartDay = 1
  /\ lastCall.date = 7 * TicksPerDay + 3
  /\ lastCall.result.weekStart = TicksPerDay
  /\ lastCall.result.weekEnd = 8 * TicksPerDay - 1

\* the tier a score in tenths falls in: the first threshold it meets or exceeds
referenceTier(thresholds, score10) ==
  IF score10 >= 10 * thresholds.excellent THEN "excellent"
  ELSE IF score10 >= 10 * thresholds.good THEN "good"
  ELSE IF score10 >= 10 * thresholds.average THEN "average"
  ELSE IF score10 >= 10 * thresholds.minimum THEN "minimum"
  ELSE "below"

\* C18: calculateEarnings(hours, score) has baseEarnings = hours * rate with rate =
\* payPerHour if set and positive, else the default rate; in 'flat' mode
\* multiplier 1, tier 'flat', bonusEarnings 0 and finalEarnings = baseEarnings; in
\* 'score' mode the tier of the first threshold the score reaches (else 'below'),
\* multiplier = bonusRates[tier] whatever that rate is, bonusEarnings =
\* baseEarnings * (multiplier - 1) and finalEarnings = baseEarnings * multiplier.
C18_EarningsReference ==
  lastCall.op = "calculateEarnings" =>
    LET b == lastCall.benchmark
        r == lastCall.result
        rate == IF b.payPerHour # None /\ b.payPerHour[1] > 0
                THEN b.payPerHour[1] ELSE DefaultHourlyRate
        base == lastCall.hours * rate
        tier == referenceTier(b.thresholds, lastCall.score10)
    IN /\ r.hourlyRate = rate /\ r.baseEarnings = base
       /\ b.earningsMode = "flat" =>
            /\ r.multiplier = 10 /\ r.tier = "flat"
            /\ r.bonusEarnings = 0 /\ r.finalEarnings = base
       /\ b.earningsMode = "score" =>
            /\ r.tier = tier
            /\ r.multiplier = b.bonusRates[tier]
            /\ 10 * r.bonusEarnings = base * (b.bonusRates[tier] - 10)
            /\ 10 * r.finalEarnings = base * b.bonusRates[tier]

RaceEntryIds == {"e1", "e2"}
RaceVetRequests ==
  {[entryId |-> e, adminTime |-> None, adminQuality |-> None] : e \in RaceEntryIds}

InitRace ==
  /\ users = [u \in Users |->
       [weekStartDay |-> Some(DefaultWeekStartDay), extraBonus |-> 0, extraBonusReason |-> None]]
  /\ entries = VetEntries
  /\ benchmarks = {ScoreBenchmark}
  /\ bonuses = <<>>
  /\ payments = <<>>
  /\ today = 12
  /\ lastCall = Response("init", 200, "", None, None, 0, FALSE)
  /\ reqs = [p \in Procs |-> IdleRequest]

\* vetEntry up to and including await entry.save()
vetEntrySave(p, r, actor) ==
  /\ reqs[p].pc = "idle"
  /\ entries' = [entries EXCEPT ![r.entryId] =
                   vettedEntry(entries[r.entryId], r.adminTime, r.adminQuality, actor, today)]
  /\ reqs' = [reqs EXCEPT ![p] =
       [pc |-> "vetSaved", op |-> "vetEntry", entryId |-> r.entryId,
        userId |-> entries[r.entryId].worker, actor |-> actor]]
  /\ UNCHANGED <<users, benchmarks, bonuses, payments, today, lastCall>>

\* the reads of the try block: the worker's weekStartDay, the benchmark, and
\* await Entry.aggregate(...)
vetEntryAggregate(p) ==
  /\ reqs[p].pc = "vetSaved"
  /\ LET worker == reqs[p].userId
         weekStartDay == IF worker \in Users THEN userWeekStartDay(worker)
                         ELSE DefaultWeekStartDay
         wb == getWeekBoundaries(entries[reqs[p].entryId].date, weekStartDay)
     IN reqs' = [reqs EXCEPT ![p] =
          [pc |-> "vetAggregated", op |-> "vetEntry", entryId |-> reqs[p].entryId,
           userId |-> worker, actor |-> reqs[p].actor,
           weekStart |-> wb.weekStart, weekEnd |-> wb.weekEnd, weekStartDay |-> weekStartDay,
           benchmark |-> resolveBenchmark,
           weekStats |-> aggregateEntries(entries, worker, wb.weekStart, wb.weekEnd)]]
  /\ UNCHANGED <<users, entries, benchmarks, bonuses, payments, today, lastCall>>

\* await WeeklyPayment.createOrUpdateWeeklyPayment(...) with the stats read
\* before, then res.json(...)
vetEntryUpsert(p) ==
  /\ reqs[p].pc = "vetAggregated"
  /\ LET res == createOrUpdateWeeklyPayment(users, payments, reqs[p].userId,
                    reqs[p].weekStart, reqs[p].weekEnd, reqs[p].weekStats,
                    reqs[p].benchmark, reqs[p].weekStartDay)
     IN /\ users' = res.users
        /\ payments' = res.payments
        /\ lastCall' = Response("vetEntry", 200, reqs[p].userId, Some(reqs[p].weekStart),
                                Some(res.pid), 0, FALSE)
  /\ reqs' = [reqs EXCEPT ![p] = IdleRequest]
  /\ UNCHANGED <<entries, benchmarks, bonuses, today>>

\* entries vetted and weeks paid concurrently, without bonuses
NextRace ==
  \/ \E p \in Procs, r \in RaceVetRequests, actor \in Actors : vetEntrySave(p, r, actor)
  \/ \E p \in Procs : vetEntryAggregate(p)
  \/ \E p \in Procs : vetEntryUpsert(p)
  \/ \E p \in Procs, userId \in Users, d \in WeekA, actor \in Actors :
       markWeekAsPaidRead(p, userId, d, actor)
  \/ \E p \in Procs : paySave(p)
  \/ \E p \in Procs : payMerge(p)

SpecRace == InitRace /\ [][NextRace]_vars

\* the pay handlers racing over two weeks, the first of which has a record
NextPayRace ==
  \/ \E amount \in BonusAmounts, reason \in Reasons, actor \in Actors :
       addExtraBonus("u1", amount, reason, actor)
  \/ \E p \in Procs, userId \in Users, d \in WeekAB, actor \in Actors :
       markWeekAsPaidRead(p, userId, d, actor)
  \/ \E p \in Procs, userId \in Users, actor \in Actors : markBonusPaidRead(p, userId, actor)
  \/ \E p \in Procs : paySave(p)
  \/ \E p \in Procs : payMerge(p)

SpecPayRace == InitConc /\ [][NextPayRace]_vars

\* C21: when pay actions for one user interleave, each Bonus is merged into one
\* payment only: a mergedIntoPayment once written is never written over with
\* another payment, and the user's payments together hold no more extraBonus
\* than the user's Bonus records that are not 'reset' amount to.
C21_MergedOnce ==
  [][/\ \A i \in 1..Len(bonuses) :
          bonuses[i].mergedIntoPayment # None =>
            bonuses'[i].mergedIntoPayment = bonuses[i].mergedIntoPayment
     /\ \A u \in Users :
          SumSeq([i \in 1..Len(payments') |->
                    IF payments'[i].user = u THEN payments'[i].extraBonus ELSE 0])
            <= bonusSum(bonuses', u, {"pending", "merged"})]_vars

\* C22: once two interleaved vetEntry calls for two entries of one worker in one
\* week have both completed, the week's regular record counts both approved
\* entries in entryCount and totalHours.
C22_NoLostUpdate ==
  ((\A p \in Procs : reqs[p].op # "vetEntry")
     /\ (\A e \in RaceEntryIds : entries[e].adminApproved)) =>
    LET wb == getWeekBoundaries(entries["e1"].date, userWeekStartDay("u1"))
        W == approvedIn(entries, "u1", wb.weekStart, wb.weekEnd)
        found == findRegular(payments, "u1", wb.weekStart)
    IN /\ found # None
       /\ payments[found[1]].entryCount = Cardinality(W)
       /\ payments[found[1]].totalHours = effectiveHours(entries, W)

\* C23: once an interleaved markWeekAsPaid and vetEntry for one user and week
\* that had no regular record have both completed, exactly one regular record
\* exists for that user and weekStart.
C23_OneRecordAfterRace ==
  ((\A p \in Procs : reqs[p].pc = "idle") /\ entries["e1"].adminApproved) =>
    Cardinality(regularsOf(payments, "u1",
        getWeekBoundaries(entries["e1"].date, userWeekStartDay("u1")).weekStart)) = 1

\* the user's regular records with paid # true
unpaidRegulars(pays, u) ==
  {i \in 1..Len(pays) : pays[i].user = u /\ pays[i].paymentType = "regular" /\ ~pays[i].paid}

\* C24: markBonusPaid for a user with a pending Bonus and a regular record with
\* paid # true adds the total of the pending bonuses to the extraBonus of the
\* unpaid regular record with the greatest weekStart, makes that record 'paid'
\* with paid = true, changes no other payment, leaves every drained Bonus
\* 'merged' and linked to that record, and answers pending: false.
C24_CaseAMerges ==
  [][(/\ lastCall'.op = "markBonusPaid"
      /\ lastCall'.user \in Users
      /\ bonusSum(bonuses, lastCall'.user, {"pending"}) > 0
      /\ unpaidRegulars(payments, lastCall'.user) # {}) =>
       LET u == lastCall'.user
           S == unpaidRegulars(payments, u)
           t == CHOOSE i \in S : \A j \in S : payments[i].weekStart >= payments[j].weekStart
           B == bonusSum(bonuses, u, {"pending"})
       IN /\ lastCall'.code = 200 /\ ~lastCall'.pending /\ lastCall'.pid = Some(t)
          /\ payments'[t].extraBonus = payments[t].extraBonus + B
          /\ payments'[t].status = "paid" /\ payments'[t].paid
          /\ Len(payments') = Len(payments)
          /\ \A j \in 1..Len(payments) : j # t => payments'[j] = payments[j]
          /\ \A i \in 1..Len(bonuses) :
               (bonuses[i].user = u /\ bonuses[i].status = "pending") =>
                 /\ bonuses'[i].status = "merged"
                 /\ bonuses'[i].mergedIntoPayment = Some(t)]_vars

\* two bonuses paid into the later of two weeks while the earlier stays unpaid
C24_Witness ==
  /\ lastCall.op = "markBonusPaid" /\ lastCall.code = 200 /\ ~lastCall.pending
  /\ lastCall.count = 2
  /\ payments[lastCall.pid[1]].weekStart = 9
  /\ payments[lastCall.pid[1]].paid /\ payments[lastCall.pid[1]].status = "paid"
  /\ \E j \in 1..Len(payments) :
       /\ payments[j].weekStart = 2 /\ payments[j].paymentType = "regular"
       /\ ~payments[j].paid
  /\ \A i \in 1..Len(bonuses) : bonuses[i].mergedIntoPayment = lastCall.pid

\* ====================================================================
\* A week paid before it has a record: entries approved by a vetEntry whose
\* payment materialization failed, then markWeekAsPaid, under no benchmark, a
\* 'flat' one and a 'score' one
\* ====================================================================
SynthBenchmarkConfigs == {{}, {NewBenchmark}, {ScoreBenchmark}}

InitSynth ==
  /\ users = [u \in Users |->
       [weekStartDay |-> Some(DefaultWeekStartDay), extraBonus |-> 0, extraBonusReason |-> None]]
  /\ entries = InitialEntries
  /\ benchmarks \in SynthBenchmarkConfigs
  /\ bonuses = <<>>
  /\ payments = <<>>
  /\ today = 12
  /\ lastCall = Response("init", 200, "", None, None, 0, FALSE)
  /\ reqs = [p \in Procs |-> IdleRequest]

NextSynth ==
  \/ \E r \in VetRequests, actor \in Actors : vetEntry(r, actor)
  \/ \E r \in VetRequests, actor \in Actors, step \in VetSteps : vetEntryFailed(r, actor, step)
  \/ \E userId \in Users, d \in WeekAB, actor \in Actors : markWeekAsPaid(userId, d, actor)

SpecSynth == InitSynth /\ [][NextSynth]_vars

\* C25: the record markWeekAsPaid builds for a week without a regular record has
\* the hourlyRate, baseEarnings, performanceMultiplier and bonusEarnings of the
\* record createOrUpdateWeeklyPayment would insert from the same approved
\* entries and benchmark, whatever the earnings mode.
C25_SynthesizedAsUpsert ==
  [][(/\ lastCall'.op = "markWeekAsPaid" /\ lastCall'.code = 200
      /\ findRegular(payments, lastCall'.user, lastCall'.week[1]) = None) =>
       LET u == lastCall'.user
           p == payments'[lastCall'.pid[1]]
           stats == aggregateEntries(entries, u, p.weekStart, p.weekEnd)
           res == createOrUpdateWeeklyPayment(users, payments, u, p.weekStart, p.weekEnd,
                                              stats, resolveBenchmark, userWeekStartDay(u))
           q == res.payments[res.pid]
       IN /\ p.hourlyRate = q.hourlyRate
          /\ p.baseEarnings = q.baseEarnings
          /\ p.performanceMultiplier = q.performanceMultiplier
          /\ p.bonusEarnings = q.bonusEarnings]_vars

\* the total of the Bonus records merged into payment pid
mergedInto(bs, pid) ==
  SumSeq([i \in 1..Len(bs) |->
            IF bs[i].status = "merged" /\ bs[i].mergedIntoPayment = Some(pid)
            THEN bs[i].amount ELSE 0])

\* C26: in every reachable state the extraBonus of each WeeklyPayment is at least
\* the total of the Bonus records merged into it; a vetEntry upsert after the
\* pay action does not take the merged amount out of the paid record.
C26_MergedBonusStays ==
  \A pid \in 1..Len(payments) : payments[pid].extraBonus >= mergedInto(bonuses, pid)

\* C27: a payment that is marked paid when all the Bonus records of its user have
\* been reset carries none of their amount: its extraBonus is 0 and its
\* totalEarnings is baseEarnings + bonusEarnings, also when an entry was vetted
\* between the grant and the reset.
C27_ResetNeverPaid ==
  [][\A pid \in 1..Len(payments') :
       (/\ payments'[pid].paid
        /\ (pid > Len(payments) \/ ~payments[pid].paid)
        /\ bonusSum(bonuses, payments'[pid].user, {"reset"}) > 0
        /\ bonusSum(bonuses, payments'[pid].user, {"pending", "merged"}) = 0) =>
         /\ payments'[pid].extraBonus = 0
         /\ payments'[pid].totalEarnings
              = payments'[pid].baseEarnings + payments'[pid].bonusEarnings]_vars

\* ====================================================================
\* A pay request that fails after payment.save() and is sent again
\* ====================================================================
\* the awaits of markWeekAsPaid after payment.save()
PayFailSteps == {"updateMany", "clearUser"}

\* an error thrown by an await reaches the error handler: statusCode || 500
payFailureCode(step) == 500

\* markWeekAsPaid when the await `step` throws: the payment is saved; the Bonus
\* records are marked only if the updateMany was not the one to fail
markWeekAsPaidFailed(userId, weekStartStr, actor, step) ==
  /\ userId \in Users
  /\ LET weekStartDay == userWeekStartDay(userId)
         wb == getWeekBoundaries(weekStartStr, weekStartDay)
         pendingBonuses == pendingBonusIds(bonuses, userId)
         extraBonus == bonusTotal(bonuses, pendingBonuses)
         extraBonusReason == bonusReasons(bonuses, pendingBonuses)
         found == findRegular(payments, userId, wb.weekStart)
         pid == IF found = None THEN Len(payments) + 1 ELSE found[1]
         payment == IF found = None
                    THEN synthesizedPayment(userId, wb.weekStart, wb.weekEnd, weekStartDay,
                                            extraBonus, extraBonusReason)
                    ELSE withPendingBonus(payments[pid], extraBonus, extraBonusReason)
     IN /\ Len(pendingBonuses) > 0
        /\ payments' = savePayment(payments, pid, paidBy(payment, actor, today))
        /\ bonuses' = IF step = "updateMany" THEN bonuses
                      ELSE markMerged(bonuses, pendingBonuses, pid, today)
        /\ lastCall' = Response("markWeekAsPaid", payFailureCode(step), userId,
                                Some(wb.weekStart), Some(pid), Len(pendingBonuses), FALSE)
                         @@ [step |-> step, weekStartStr |-> weekStartStr]
  /\ UNCHANGED <<users, entries, benchmarks, today, reqs>>

\* the caller sends the failed request again
retryMarkWeekAsPaid(actor) ==
  /\ lastCall.op = "markWeekAsPaid" /\ lastCall.code = 500
  /\ markWeekAsPaid(lastCall.user, lastCall.weekStartStr, actor)

NextRetry ==
  \/ \E amount \in BonusAmounts, reason \in Reasons, actor \in Actors :
       addExtraBonus("u1", amount, reason, actor)
  \/ \E r \in VetRequests, actor \in Actors : vetEntry(r, actor)
  \/ \E userId \in Users, d \in WeekAB, actor \in Actors, step \in PayFailSteps :
       markWeekAsPaidFailed(userId, d, actor, step)
  \/ \E actor \in Actors : retryMarkWeekAsPaid(actor)

SpecRetry == Init /\ [][NextRetry]_vars

\* C28: when markWeekAsPaid has failed after saving the paid payment with the
\* pending bonus total B folded in and before marking the Bonus records, the
\* retry for the same week leaves that payment with extraBonus = B, as the
\* failed call left it, and every one of those Bonus records 'merged' and linked
\* to it.
C28_RetryCountsOnce ==
  [][(/\ lastCall.op = "markWeekAsPaid" /\ lastCall.code = 500
      /\ lastCall.step = "updateMany"
      /\ lastCall'.op = "markWeekAsPaid" /\ lastCall'.code = 200
      /\ lastCall'.user = lastCall.user /\ lastCall'.week = lastCall.week) =>
       LET u == lastCall.user
           pid == lastCall.pid[1]
           B == bonusSum(bonuses, u, {"pending"})
       IN /\ lastCall'.pid = lastCall.pid
          /\ B > 0
          /\ payments[pid].extraBonus = B
          /\ payments'[pid].extraBonus = B
          /\ payments'[pid].paid /\ payments'[pid].status = "paid"
          /\ Len(payments') = Len(payments)
          /\ \A i \in 1..Len(bonuses) :
               (bonuses[i].user = u /\ bonuses[i].status = "pending") =>
                 /\ bonuses'[i].status = "merged"
                 /\ bonuses'[i].mergedIntoPayment = Some(pid)]_vars

\* a retried payment of a vetted week that drained two bonuses
C28_Witness ==
  /\ lastCall.op = "markWeekAsPaid" /\ lastCall.code = 200 /\ lastCall.count = 2
  /\ payments[lastCall.pid[1]].paid
  /\ payments[lastCall.pid[1]].entryCount > 0
  /\ payments[lastCall.pid[1]].extraBonus = 2 * 5
  /\ \A i \in 1..Len(bonuses) :
       bonuses[i].status = "merged" /\ bonuses[i].mergedIntoPayment = lastCall.pid

\* C29: when the payment materialization of vetEntry fails, at the storage
\* upsert inside createOrUpdateWeeklyPayment in particular, the user's
\* extraBonus and extraBonusReason are what they were before the call, so a
\* retried upsert still finds the bonus.
C29_UpsertFailureKeepsBonus ==
  [][(lastCall'.op = "vetEntry" /\ lastCall'.pid = None) =>
       \A u \in Users :
         /\ users'[u].extraBonus = users[u].extraBonus
         /\ users'[u].extraBonusReason = users[u].extraBonusReason]_vars

\* C30: in every state reached by the upsert, approvePayment, denyPayment,
\* markWeekAsPaid, markBonusPaid and updateWeeklyPayment, each WeeklyPayment has
\* status 'paid' if and only if paid = true, and has paidDate and paidBy set
\* whenever paid = true.
C30_PaidIffStatusPaid ==
  \A i \in 1..Len(payments) :
    /\ (payments[i].status = "paid") <=> payments[i].paid
    /\ payments[i].paid => (payments[i].paidDate # None /\ payments[i].paidBy # None)

====
